---- MODULE Spec2Model ----
(***************************************************************************)
(* State-machine model of the napari plugins of CellSeg3D:                 *)
(*   - Cropping  (napari_cellseg_annotator/plugin_crop.py)                 *)
(*   - Trainer   (napari_cellseg_annotator/plugin_model_training.py)       *)
(*   - Reviewer  (napari_cellseg3d/plugin_review.py)                       *)
(* Each plugin is an independent widget; it gets its own specification     *)
(* (SpecCrop, SpecTrain, SpecReview) over its own variables.               *)
(***************************************************************************)
EXTENDS Integers, Sequences, FiniteSets, TLC

\* ------------------------------------------------------------------ bounds
\* Largest extent of a volume axis explored.
MaxDim == 2
\* Largest spinbox value explored (the spinboxes range over 1..1000).
MaxBox == 2
\* Largest number of successful Cropping.start calls explored.
MaxSessions == 1

\* Largest number of epochs the epoch spinbox is set to (its range is 2..1000).
MaxEpochs == 4
\* Largest validation interval explored (the spinbox ranges over 1..10).
MaxInterval == 2
\* Largest number of training workers created in one behaviour.
MaxRuns == 2

\* Largest number of Reviewer widgets docked at the same time.
MaxDocked == 2
\* Largest number of launch_review calls in one behaviour.
MaxLaunches == 2

\* Python's None, for a value that is otherwise a tuple / a layer record.
None == <<>>
NoLayer == [data |-> [origin |-> <<>>, shape |-> <<>>], translate |-> <<>>]

VARIABLES
    \* ---- environment
    test_mode,          \* utils.ENABLE_TEST_MODE()
    volume_on_disk,     \* shape <<z, y, x>> of the volume utils.load_images returns
    \* ---- Cropping
    c_image_path,       \* self.image_path
    c_label_path,       \* self.label_path
    crop_label_choice,  \* checkbox "Crop labels as well ?"
    lbl_label_visible,  \* visibility of btn_label / lbl_label
    crop_labels,        \* self.crop_labels
    box_widgets,        \* values of the three spinboxes, <<x, y, z>>
    crop_size,          \* <<self._crop_size_x, self._crop_size_y, self._crop_size_z>>
    c_xyz,              \* <<self._x, self._y, self._z>>
    c_image,            \* self.image: None or the shape <<z, y, x>> of the loaded array
    c_label,            \* self.label: None or the shape of the loaded array
    layers,             \* names of the viewer's layers, in order of addition
    docked_widgets,     \* self.docked_widgets
    cropped,            \* the 'cropped' layer of the latest start: None or a record
    cropped_labels,     \* the 'cropped_labels' layer of the latest start
    slider_max,         \* max of the z, y, x sliders of the latest start
    c_warned,           \* check_ready has issued its warning
    \* ---- Trainer
    images_filepaths,   \* self.images_filepaths
    labels_filepaths,   \* self.labels_filepaths
    epoch_choice,       \* value of the epoch spinbox
    val_interval_choice,\* value of the validation interval spinbox
    t_val_interval,     \* self.val_interval
    t_data,             \* self.data: "None", "dict" or "deleted"
    t_worker,           \* self.worker: 0 for None, else the id of the worker
    n_created,          \* number of workers created so far
    workers,            \* the worker objects, by id
    t_model,            \* self.model
    epoch_loss_values,  \* self.epoch_loss_values
    metric_values,      \* self.metric_values
    lists_deleted,      \* clean_cache has deleted the two lists
    btn_start_text,     \* text of the start button
    btn_close_visible,  \* visibility of the close button
    main_pc,            \* position of the GUI thread inside Trainer.start
    click_created,      \* the click being handled created the worker
    events,             \* signals queued to the GUI thread, oldest first
    canvas,             \* self.canvas is not None
    n_canvas,           \* canvases docked in the viewer
    plotted,            \* lengths <<loss, metric>> last drawn by plot_loss
    t_warned,           \* Trainer.check_ready has issued its warning
    ctor,               \* the arguments given to Trainer.__init__
    ctor_done,          \* Trainer.__init__ has run
    sample_choice,      \* value of the sample spinbox
    batch_choice,       \* value of the batch spinbox
    loss_choice,        \* current index of the loss dropdown, -1 for none
    \* ---- Reviewer
    global_launched_before, \* the module's global flag
    viewers,            \* the napari viewers, by id: open or not, review session or not
    n_viewers,          \* number of viewers created so far
    reviewers,          \* the docked Reviewer widgets, by slot
    launch_count,       \* number of launch_review calls so far
    last_launch,        \* what the latest run_review that launched did
    label_files,        \* empty label images have been written by run_review
    images_loaded       \* utils.load_images has returned images to run_review

cropVars == <<test_mode, volume_on_disk, c_image_path, c_label_path,
              crop_label_choice, lbl_label_visible, crop_labels, box_widgets,
              crop_size, c_xyz, c_image, c_label, layers, docked_widgets,
              cropped, cropped_labels, slider_max, c_warned>>

trainVars == <<images_filepaths, labels_filepaths, epoch_choice,
               val_interval_choice, t_val_interval, t_data, t_worker, n_created,
               workers, t_model, epoch_loss_values, metric_values, lists_deleted,
               btn_start_text, btn_close_visible, main_pc, click_created, events,
               canvas, n_canvas, plotted, t_warned>>

reviewVars == <<global_launched_before, viewers, n_viewers, reviewers,
                launch_count, last_launch, label_files, images_loaded>>

ctorVars == <<ctor, ctor_done, sample_choice, batch_choice, loss_choice>>

vars == <<cropVars, trainVars, ctorVars, reviewVars>>

otherThanCrop == <<trainVars, ctorVars, reviewVars>>
otherThanTrain == <<cropVars, ctorVars, reviewVars>>
otherThanReview == <<volume_on_disk, c_image_path, c_label_path,
                     crop_label_choice, lbl_label_visible, crop_labels,
                     box_widgets, crop_size, c_xyz, c_image, c_label, layers,
                     docked_widgets, cropped, cropped_labels, slider_max,
                     c_warned, trainVars, ctorVars>>

\* ================================================================ Cropping

\* The default of the spinboxes (64 in the source), scaled into the explored range.
DEFAULT_CROP_SIZE == MaxBox

Dims == 1..MaxDim
BoxValues == 1..MaxBox
\* The largest explored volume.
CubeVolume == <<MaxDim, MaxDim, MaxDim>>
Shapes == {<<a, b, c>> : a \in Dims, b \in Dims, c \in Dims}

\* Paths a file dialog can leave in the widget: unset, or a chosen file.
CropPaths == {"", "vol.tif"}
TestImagePath == "test/images.tif"
TestLabelPath == "test/labels.tif"

Min(a, b) == IF a < b THEN a ELSE b

\* numpy basic slicing a[i : i + c] on an axis of length s (i >= 0, c >= 1):
\* both ends are clipped to s.
SliceStart(i, s) == Min(i, s)
SliceLen(i, c, s) == Min(i + c, s) - Min(i, s)

\* image_stack[i : i + cropz, j : j + cropy, k : k + cropx]
SubVolume(shape, izyx, cz, cy, cx) ==
    [origin |-> <<SliceStart(izyx[1], shape[1]), SliceStart(izyx[2], shape[2]),
                  SliceStart(izyx[3], shape[3])>>,
     shape  |-> <<SliceLen(izyx[1], cz, shape[1]), SliceLen(izyx[2], cy, shape[2]),
                  SliceLen(izyx[3], cx, shape[3])>>]

\* Layer scale: add_image is called without a scale, napari's default.
LayerScale == <<1, 1, 1>>

\* ends = np.asarray(image_stack.shape) - np.asarray(crop_sizes) + 1
\* with image_stack.shape = (z, y, x) and crop_sizes = (x, y, z).
Ends(shape, sizes) == [a \in 1..3 |-> shape[a] - sizes[a] + 1]

\* The state Cropping.__init__ leaves, for the environment (e, v) and paths.
CropConstructed(ipath, lpath) ==
    /\ c_image_path = ipath
    /\ c_label_path = lpath
    /\ crop_label_choice = TRUE          \* build() toggles the unchecked box
    /\ lbl_label_visible = TRUE
    /\ crop_labels = FALSE
    /\ box_widgets = <<DEFAULT_CROP_SIZE, DEFAULT_CROP_SIZE, DEFAULT_CROP_SIZE>>
    /\ crop_size = <<DEFAULT_CROP_SIZE, DEFAULT_CROP_SIZE, DEFAULT_CROP_SIZE>>
    /\ c_xyz = <<0, 0, 0>>
    /\ c_image = None
    /\ c_label = None
    /\ layers = <<>>
    /\ docked_widgets = <<>>
    /\ cropped = NoLayer
    /\ cropped_labels = NoLayer
    /\ slider_max = None
    /\ c_warned = FALSE

\* The file pickers of the form: the user chooses the image / label path.
show_dialog_image ==
    /\ UNCHANGED otherThanCrop
    /\ \E p \in CropPaths : p # c_image_path /\ c_image_path' = p
    /\ UNCHANGED <<test_mode, volume_on_disk, c_label_path,
              crop_label_choice, lbl_label_visible, crop_labels, box_widgets,
              crop_size, c_xyz, c_image, c_label, layers, docked_widgets,
              cropped, cropped_labels, slider_max, c_warned>>

show_dialog_label ==
    /\ UNCHANGED otherThanCrop
    /\ lbl_label_visible
    /\ \E p \in CropPaths : p # c_label_path /\ c_label_path' = p
    /\ UNCHANGED <<test_mode, volume_on_disk, c_image_path,
              crop_label_choice, lbl_label_visible, crop_labels, box_widgets,
              crop_size, c_xyz, c_image, c_label, layers, docked_widgets,
              cropped, cropped_labels, slider_max, c_warned>>

\* The user clicks the checkbox: Qt toggles it, then clicked -> toggle_label_path.
toggle_label_path ==
    /\ UNCHANGED otherThanCrop
    /\ crop_label_choice' = ~crop_label_choice
    /\ lbl_label_visible' = crop_label_choice'
    /\ UNCHANGED <<test_mode, volume_on_disk, c_image_path, c_label_path,
              crop_labels, box_widgets,
              crop_size, c_xyz, c_image, c_label, layers, docked_widgets,
              cropped, cropped_labels, slider_max, c_warned>>

\* The user edits one of the three spinboxes (range 1..1000, capped by MaxBox).
set_box_widget ==
    /\ UNCHANGED otherThanCrop
    /\ \E a \in 1..3, v \in BoxValues :
         /\ v # box_widgets[a]
         /\ box_widgets' = [box_widgets EXCEPT ![a] = v]
    /\ UNCHANGED <<test_mode, volume_on_disk, c_image_path, c_label_path,
              crop_label_choice, lbl_label_visible, crop_labels,
              crop_size, c_xyz, c_image, c_label, layers, docked_widgets,
              cropped, cropped_labels, slider_max, c_warned>>

\* A check_ready that forgets the label path.
Crop_check_ready_ImageOnly(image_path, label_path, crop_lbl) ==
    ~ (image_path = "")

\* check_ready, evaluated on the paths and flag start has just set.
Crop_check_ready(image_path, label_path, crop_lbl) ==
    ~ (image_path = "" \/ (crop_lbl /\ label_path = ""))

\* Paths after the test-mode block of start.
StartImagePath == IF test_mode THEN TestImagePath ELSE c_image_path
StartLabelPath(crop_lbl) ==
    IF test_mode /\ crop_lbl THEN TestLabelPath ELSE c_label_path

\* add_crop_sliders: reads the spinboxes, adds the 'cropped' (and
\* 'cropped_labels') layer, creates and docks the sliders.
add_crop_sliders(crop_lbl) ==
    LET sizes == box_widgets
        cx == sizes[1]
        cy == sizes[2]
        cz == sizes[3]
        shape == volume_on_disk
    IN  /\ crop_size' = sizes
        /\ c_xyz' = <<0, 0, 0>>
        /\ cropped' = [data |-> SubVolume(shape, <<0, 0, 0>>, cz, cy, cx),
                       translate |-> <<0, 0, 0>>]
        /\ cropped_labels' =
               IF crop_lbl
               THEN [data |-> SubVolume(shape, <<0, 0, 0>>, cz, cy, cx),
                     translate |-> <<0, 0, 0>>]
               ELSE NoLayer     \* labels_crop_layer is not bound in this closure
        /\ slider_max' = Ends(shape, sizes)
        /\ layers' = layers
                       \o <<"image">>
                       \o (IF crop_lbl THEN <<"labels">> ELSE <<>>)
                       \o <<"cropped">>
                       \o (IF crop_lbl THEN <<"cropped_labels">> ELSE <<>>)
        /\ docked_widgets' = docked_widgets \o <<"save", "sliders">>

\* Cropping.start, the handler of the Start button.
Cropping_start ==
    LET crop_lbl == crop_label_choice
        ipath == StartImagePath
        lpath == StartLabelPath(crop_lbl)
    IN  /\ crop_labels' = crop_lbl
        /\ c_image_path' = ipath
        /\ c_label_path' = lpath
        /\ IF ~Crop_check_ready(ipath, lpath, crop_lbl)
           THEN /\ c_warned' = TRUE
                /\ UNCHANGED <<c_image, c_label, layers, docked_widgets, cropped,
                               cropped_labels, slider_max, crop_size, c_xyz>>
           ELSE /\ Len(docked_widgets) < 2 * MaxSessions
                /\ c_image' = volume_on_disk
                /\ c_label' = IF crop_lbl THEN volume_on_disk ELSE c_label
                /\ add_crop_sliders(crop_lbl)
                /\ UNCHANGED c_warned
        /\ UNCHANGED <<test_mode, volume_on_disk, crop_label_choice,
                       lbl_label_visible, box_widgets>>
        /\ UNCHANGED otherThanCrop

\* set_slice(axis, value, crp_lbl): a slider of the latest start is moved to
\* `value`; axis 1, 2, 3 are the z, y, x sliders.
set_slice(axis, value) ==
    LET tr   == cropped.translate
        old  == [a \in 1..3 |-> tr[a] \div LayerScale[a]]
        izyx == [old EXCEPT ![axis] = value]
        data == SubVolume(c_image, izyx, crop_size[3], crop_size[2], crop_size[1])
        newtr == [a \in 1..3 |-> LayerScale[a] * izyx[a]]
    IN  /\ cropped' = [data |-> data, translate |-> newtr]
        /\ cropped_labels' =
               IF crop_labels /\ cropped_labels # NoLayer
               THEN [data |-> data, translate |-> newtr]
               ELSE cropped_labels
        \* with crp_lbl set and no labels_crop_layer bound, the handler raises
        \* NameError before it stores the position
        /\ c_xyz' = IF crop_labels /\ cropped_labels = NoLayer
                    THEN c_xyz
                    ELSE <<izyx[3], izyx[2], izyx[1]>>

slider_changed ==
    /\ UNCHANGED otherThanCrop
    /\ cropped # NoLayer
    /\ \E axis \in 1..3 :
         \E value \in 0..slider_max[axis] :
            /\ value # cropped.translate[axis] \div LayerScale[axis]
            /\ set_slice(axis, value)
    /\ UNCHANGED <<test_mode, volume_on_disk, c_image_path, c_label_path,
              crop_label_choice, lbl_label_visible, crop_labels, box_widgets,
              crop_size, c_image, c_label, layers, docked_widgets,
              slider_max, c_warned>>


\* ================================================================= Trainer

\* Lower ends of the ranges of the epoch and validation interval spinboxes.
MinEpochs == 2
MinInterval == 1

\* Values a path list can hold: no file found, the unset marker, a data set.
PathLists == {<<>>, <<"">>, <<"a.tif">>}

\* Dice metrics a validation can produce (two distinct values of [0, 1]).
MetricValues == {1, 2}

WorkerIds == 1..MaxRuns

\* A worker id that no worker object has yet, or whose object is gone.
NoWorker ==
    [st |-> "none", abort |-> FALSE, gen |-> "new", epoch |-> 0,
     max_epochs |-> 0, val_interval |-> 0, metric |-> -1, best_metric |-> -1,
     best_metric_epoch |-> -1, weights |-> 0, stop_at |-> -1]

\* The worker thread_worker returns: connect is given, so it is started at
\* once (queued in the thread pool); the generator has not run yet.
NewWorker == [NoWorker EXCEPT !.st = "queued"]

\* worker.is_running
is_running(w) == workers[w].st = "running"

\* Trainer.check_ready
Trainer_check_ready ==
    images_filepaths # <<"">> /\ labels_filepaths # <<"">>

\* The state Trainer.__init__ leaves.
TrainerConstructed ==
    /\ t_val_interval = val_interval_choice
    /\ t_data = "None"
    /\ t_worker = 0
    /\ n_created = 0
    /\ workers = [w \in WorkerIds |-> NoWorker]
    /\ t_model = "None"
    /\ epoch_loss_values = <<>>
    /\ metric_values = <<>>
    /\ lists_deleted = FALSE
    /\ btn_start_text = "Start training"
    /\ btn_close_visible = TRUE
    /\ main_pc = "idle"
    /\ click_created = FALSE
    /\ events = <<>>
    /\ canvas = FALSE
    /\ n_canvas = 0
    /\ plotted = <<>>
    /\ t_warned = FALSE

\* The file pickers of the form: the user loads the image or label data set.
load_image_dataset ==
    /\ main_pc = "idle"
    /\ \E l \in PathLists : l # images_filepaths /\ images_filepaths' = l
    /\ UNCHANGED <<labels_filepaths, epoch_choice,
               val_interval_choice, t_val_interval, t_data, t_worker, n_created,
               workers, t_model, epoch_loss_values, metric_values, lists_deleted,
               btn_start_text, btn_close_visible, main_pc, click_created, events,
               canvas, n_canvas, plotted, t_warned>>
    /\ UNCHANGED otherThanTrain

load_label_dataset ==
    /\ main_pc = "idle"
    /\ \E l \in PathLists : l # labels_filepaths /\ labels_filepaths' = l
    /\ UNCHANGED <<images_filepaths, epoch_choice,
               val_interval_choice, t_val_interval, t_data, t_worker, n_created,
               workers, t_model, epoch_loss_values, metric_values, lists_deleted,
               btn_start_text, btn_close_visible, main_pc, click_created, events,
               canvas, n_canvas, plotted, t_warned>>
    /\ UNCHANGED otherThanTrain

\* A spinbox edit made while a generator is running is read by nothing before
\* that run ends; it is explored as made after the run.
EditIsRead == IF t_worker = 0 THEN TRUE ELSE workers[t_worker].gen = "new"

\* The user edits the epoch or the validation interval spinbox.
set_epoch_choice ==
    /\ main_pc = "idle"
    /\ EditIsRead
    /\ \E v \in MinEpochs..MaxEpochs : v # epoch_choice /\ epoch_choice' = v
    /\ UNCHANGED <<images_filepaths, labels_filepaths,
               val_interval_choice, t_val_interval, t_data, t_worker, n_created,
               workers, t_model, epoch_loss_values, metric_values, lists_deleted,
               btn_start_text, btn_close_visible, main_pc, click_created, events,
               canvas, n_canvas, plotted, t_warned>>
    /\ UNCHANGED otherThanTrain

set_val_interval_choice ==
    /\ main_pc = "idle"
    /\ EditIsRead
    /\ \E v \in MinInterval..MaxInterval :
          v # val_interval_choice /\ val_interval_choice' = v
    /\ UNCHANGED <<images_filepaths, labels_filepaths, epoch_choice,
               t_val_interval, t_data, t_worker, n_created,
               workers, t_model, epoch_loss_values, metric_values, lists_deleted,
               btn_start_text, btn_close_visible, main_pc, click_created, events,
               canvas, n_canvas, plotted, t_warned>>
    /\ UNCHANGED otherThanTrain

\* `self.worker is not None` fails whatever self.worker holds.
WorkerIsNone_Always == TRUE

\* The test of `if self.worker is not None` (negated).
WorkerIsNone == t_worker = 0

\* Trainer.start up to the second test of is_running: the not-ready return.
start_not_ready ==
    /\ main_pc = "idle"
    /\ ~Trainer_check_ready
    /\ t_warned' = TRUE
    /\ UNCHANGED <<images_filepaths, labels_filepaths, epoch_choice,
               val_interval_choice, t_val_interval, t_data, t_worker, n_created,
               workers, t_model, epoch_loss_values, metric_values, lists_deleted,
               btn_start_text, btn_close_visible, main_pc, click_created, events,
               canvas, n_canvas, plotted>>
    /\ UNCHANGED otherThanTrain

\* Trainer.start with a worker that is running: `pass`, on to the second test.
start_while_running ==
    /\ main_pc = "idle"
    /\ Trainer_check_ready
    /\ ~WorkerIsNone
    /\ is_running(t_worker)
    /\ main_pc' = "at_is_running"
    /\ click_created' = FALSE
    /\ UNCHANGED <<images_filepaths, labels_filepaths, epoch_choice,
               val_interval_choice, t_val_interval, t_data, t_worker, n_created,
               workers, t_model, epoch_loss_values, metric_values, lists_deleted,
               btn_start_text, btn_close_visible, events,
               canvas, n_canvas, plotted, t_warned>>
    /\ UNCHANGED otherThanTrain

\* Trainer.start with a worker that is not running (queued, or finished and not
\* yet cleaned): worker.start() raises "This worker is already started!" and
\* the handler ends there.
start_restart_raises ==
    /\ main_pc = "idle"
    /\ Trainer_check_ready
    /\ ~WorkerIsNone
    /\ ~is_running(t_worker)
    /\ UNCHANGED trainVars
    /\ UNCHANGED otherThanTrain

\* Trainer.start with self.worker None: the worker is created (and started by
\* thread_worker) and the finished callbacks are connected.
start_create_worker ==
    /\ main_pc = "idle"
    /\ Trainer_check_ready
    /\ WorkerIsNone
    /\ n_created < MaxRuns
    /\ n_created' = n_created + 1
    /\ t_val_interval' = val_interval_choice
    /\ t_data' = "dict"
    /\ btn_close_visible' = FALSE
    /\ t_worker' = n_created + 1
    /\ workers' = [workers EXCEPT ![n_created + 1] = NewWorker]
    /\ main_pc' = "at_is_running"
    /\ click_created' = TRUE
    /\ UNCHANGED <<images_filepaths, labels_filepaths, epoch_choice,
               val_interval_choice, t_model, epoch_loss_values, metric_values,
               lists_deleted, btn_start_text, events,
               canvas, n_canvas, plotted, t_warned>>
    /\ UNCHANGED otherThanTrain

\* worker.quit(): sets abort_requested. stop_at remembers the epoch the
\* training loop was in when the stop was requested.
quit(w) ==
    [workers EXCEPT ![w].abort = TRUE,
                    ![w].stop_at = IF workers[w].gen = "new" THEN -1
                                   ELSE workers[w].epoch]

\* Trainer.start from `if self.worker.is_running:` to its end.
start_second_test ==
    /\ main_pc = "at_is_running"
    /\ IF is_running(t_worker)
       THEN /\ btn_start_text' = "Stopping..."
            /\ workers' = quit(t_worker)
       ELSE /\ btn_start_text' = "Running...  Click to stop"
            /\ UNCHANGED workers
    /\ main_pc' = "idle"
    /\ click_created' = FALSE
    /\ UNCHANGED <<images_filepaths, labels_filepaths, epoch_choice,
               val_interval_choice, t_val_interval, t_data, t_worker, n_created,
               t_model, epoch_loss_values, metric_values, lists_deleted,
               btn_close_visible, events,
               canvas, n_canvas, plotted, t_warned>>
    /\ UNCHANGED otherThanTrain

\* ---- the worker thread

\* WorkerBase.run starts in a pool thread: is_running becomes True.
worker_run_begins ==
    /\ \E w \in WorkerIds :
         /\ workers[w].st = "queued"
         /\ workers' = [workers EXCEPT ![w].st = "running"]
    /\ UNCHANGED <<images_filepaths, labels_filepaths, epoch_choice,
               val_interval_choice, t_val_interval, t_data, t_worker, n_created,
               t_model, epoch_loss_values, metric_values, lists_deleted,
               btn_start_text, btn_close_visible, main_pc, click_created, events,
               canvas, n_canvas, plotted, t_warned>>
    /\ UNCHANGED otherThanTrain

\* The generator leaves the epoch loop or the worker stops: run() returns,
\* is_running becomes False and `finished` is queued to the GUI thread.
Finished(r) == [r EXCEPT !.st = "finished"]

\* The body of `if metric > best_metric:` after the yield; the saved model
\* state is named by the epoch (1-based) it was taken at.
SaveBest(r) ==
    IF r.metric > r.best_metric
    THEN [r EXCEPT !.best_metric = r.metric,
                   !.best_metric_epoch = r.epoch + 1,
                   !.weights = r.epoch + 1]
    ELSE r

\* `for epoch in range(max_epochs)` steps to the next epoch, or the generator
\* returns.
NextEpoch(r) ==
    IF r.epoch + 1 < r.max_epochs
    THEN [r EXCEPT !.epoch = r.epoch + 1, !.gen = "epoch"]
    ELSE [Finished(r) EXCEPT !.gen = "done"]

\* One turn of GeneratorWorker.work's loop with the generator suspended: it
\* stops if abort was requested, else it resumes the generator.
worker_loop ==
    /\ \E w \in WorkerIds :
         LET r == workers[w] IN
         /\ r.st = "running"
         /\ r.gen \in {"new", "yielded"}
         /\ LET r2 == IF r.abort THEN Finished(r)
                      ELSE IF r.gen = "new"
                      THEN [r EXCEPT !.max_epochs = epoch_choice,
                                     !.val_interval = val_interval_choice,
                                     !.epoch = 0, !.gen = "epoch"]
                      ELSE NextEpoch(SaveBest(r))
            IN /\ workers' = [workers EXCEPT ![w] = r2]
               /\ events' = IF r2.st = "finished"
                            THEN Append(events, <<"finished", w>>)
                            ELSE events
    /\ UNCHANGED <<images_filepaths, labels_filepaths, epoch_choice,
               val_interval_choice, t_val_interval, t_data, t_worker, n_created,
               t_model, epoch_loss_values, metric_values, lists_deleted,
               btn_start_text, btn_close_visible, main_pc, click_created,
               canvas, n_canvas, plotted, t_warned>>
    /\ UNCHANGED otherThanTrain

\* One epoch of the training loop: the average loss is appended (named here by
\* the epoch that produced it); on a validation epoch a metric is appended and
\* the generator yields.
train_epoch ==
    /\ \E w \in WorkerIds :
         LET r == workers[w] IN
         /\ r.st = "running"
         /\ r.gen = "epoch"
         /\ IF lists_deleted
            THEN \* self.epoch_loss_values is gone: AttributeError ends the run
                 /\ workers' = [workers EXCEPT ![w] = [Finished(r) EXCEPT !.gen = "error"]]
                 /\ events' = Append(events, <<"finished", w>>)
                 /\ UNCHANGED <<epoch_loss_values, metric_values>>
            ELSE /\ epoch_loss_values' = Append(epoch_loss_values, r.epoch + 1)
                 /\ IF (r.epoch + 1) % r.val_interval = 0
                    THEN \E m \in MetricValues :
                           /\ metric_values' = Append(metric_values, m)
                           /\ workers' = [workers EXCEPT ![w].metric = m,
                                                         ![w].gen = "yielded"]
                           /\ events' = Append(events, <<"yielded", w>>)
                    ELSE /\ UNCHANGED metric_values
                         /\ workers' = [workers EXCEPT ![w] = NextEpoch(r)]
                         /\ events' = IF NextEpoch(r).st = "finished"
                                      THEN Append(events, <<"finished", w>>)
                                      ELSE events
    /\ UNCHANGED <<images_filepaths, labels_filepaths, epoch_choice,
               val_interval_choice, t_val_interval, t_data, t_worker, n_created,
               t_model, lists_deleted,
               btn_start_text, btn_close_visible, main_pc, click_created,
               canvas, n_canvas, plotted, t_warned>>
    /\ UNCHANGED otherThanTrain

\* ---- the GUI thread's handlers of the worker's signals

\* A clean_cache that leaves self.worker as it is.
clean_cache_KeepsWorker(w) ==
    /\ t_worker' = t_worker
    /\ workers' = [workers EXCEPT ![w] = NoWorker]
    /\ t_model' = "None"
    /\ UNCHANGED <<lists_deleted, epoch_loss_values, metric_values, t_data>>

\* Trainer.clean_cache, run for the finished worker w. With the lists already
\* deleted, `del self.epoch_loss_values` raises and self.data is kept.
clean_cache(w) ==
    /\ t_worker' = 0
    /\ workers' = [workers EXCEPT ![w] = NoWorker]
    /\ t_model' = "None"
    /\ IF lists_deleted
       THEN UNCHANGED <<lists_deleted, epoch_loss_values, metric_values, t_data>>
       ELSE /\ lists_deleted' = TRUE
            /\ epoch_loss_values' = <<>>
            /\ metric_values' = <<>>
            /\ t_data' = "deleted"

\* The callbacks connected to worker.finished, in connection order.
on_finished ==
    /\ main_pc = "idle"
    /\ events # <<>>
    /\ Head(events)[1] = "finished"
    /\ events' = Tail(events)
    /\ btn_start_text' = "Start"
    /\ btn_close_visible' = TRUE
    /\ clean_cache(Head(events)[2])
    /\ UNCHANGED <<images_filepaths, labels_filepaths, epoch_choice,
               val_interval_choice, t_val_interval, n_created,
               main_pc, click_created,
               canvas, n_canvas, plotted, t_warned>>
    /\ UNCHANGED otherThanTrain

\* Trainer.update_loss_plot, connected to worker.yielded.
update_loss_plot ==
    /\ main_pc = "idle"
    /\ events # <<>>
    /\ Head(events)[1] = "yielded"
    /\ events' = Tail(events)
    /\ LET epoch == Len(epoch_loss_values)
           drawn == <<Len(epoch_loss_values), Len(metric_values)>>
       IN  IF lists_deleted \/ epoch < t_val_interval * 2
           THEN UNCHANGED <<canvas, n_canvas, plotted>>
           ELSE IF epoch = t_val_interval * 2
           THEN /\ canvas' = TRUE
                /\ n_canvas' = n_canvas + 1
                /\ plotted' = drawn
           ELSE IF canvas
           THEN /\ plotted' = drawn
                /\ UNCHANGED <<canvas, n_canvas>>
           ELSE \* self.train_loss_plot is None: AttributeError
                UNCHANGED <<canvas, n_canvas, plotted>>
    /\ UNCHANGED <<images_filepaths, labels_filepaths, epoch_choice,
               val_interval_choice, t_val_interval, t_data, t_worker, n_created,
               workers, t_model, epoch_loss_values, metric_values, lists_deleted,
               btn_start_text, btn_close_visible, main_pc, click_created,
               t_warned>>
    /\ UNCHANGED otherThanTrain

\* ------------------------------------------------ Trainer.__init__, widgets

\* The range a new QSpinBox has before setRange, and the ranges __init__ sets.
SpinBoxDefaultMin == 0
SpinBoxDefaultMax == 99
EpochRangeMax == 1000
SampleRangeMin == 2
SampleRangeMax == 50
BatchRangeMin == 1
BatchRangeMax == 10
IntervalRangeMax == 10
\* Number of entries of self.loss_dict.
NumLosses == 6

\* The signature's defaults.
DefaultEpochs == 10
DefaultSamples == 15
DefaultBatch == 1
DefaultInterval == 2
DefaultLossIndex == 0

\* A value brought into [lo, hi], as QSpinBox does in setValue and setRange.
Clamp(v, lo, hi) == IF v < lo THEN lo ELSE IF v > hi THEN hi ELSE v

\* QSpinBox(); setValue(v); setRange(lo, hi): the value is first bound to the
\* range of the new spinbox, then to the range set.
SpinBoxValue(v, lo, hi) ==
    Clamp(Clamp(v, SpinBoxDefaultMin, SpinBoxDefaultMax), lo, hi)

\* QComboBox.setCurrentIndex(i) on a box of `count` items: an index that names
\* no item leaves the box without a current item.
SetCurrentIndex(i, count) == IF 0 <= i /\ i < count THEN i ELSE -1

\* QComboBox.addItems of n items to a box of `count` items whose current index
\* is cur: the first item of a box that was empty becomes the current one.
AddItems(cur, count, n) == IF count = 0 /\ cur = -1 /\ n > 0 THEN 0 ELSE cur

\* QComboBox(); setCurrentIndex(i); addItems(n items), in the order of __init__.
ComboBoxIndex(i, n) == AddItems(SetCurrentIndex(i, 0), 0, n)

\* Arguments of __init__ within the ranges of the widgets: the ends of each
\* range, the default, and the two values around the new spinbox's maximum.
EpochArgs == {MinEpochs, DefaultEpochs, SpinBoxDefaultMax,
              SpinBoxDefaultMax + 1, EpochRangeMax}
SampleArgs == {SampleRangeMin, DefaultSamples, SampleRangeMax}
BatchArgs == {BatchRangeMin, BatchRangeMax}
IntervalArgs == {MinInterval, MinInterval + 1, IntervalRangeMax}
LossArgs == 0..(NumLosses - 1)

CtorArgs ==
    [epochs : EpochArgs, samples : SampleArgs, batch : BatchArgs,
     val_interval : IntervalArgs, loss_index : LossArgs]

\* The widgets of a Trainer constructed with the signature's defaults; the
\* epoch and interval spinboxes may have been edited since.
CtorParked ==
    /\ ctor = [epochs |-> DefaultEpochs, samples |-> DefaultSamples,
               batch |-> DefaultBatch, val_interval |-> DefaultInterval,
               loss_index |-> DefaultLossIndex]
    /\ ctor_done = TRUE
    /\ sample_choice = DefaultSamples
    /\ batch_choice = DefaultBatch
    /\ loss_choice = DefaultLossIndex

\* Trainer.__init__, the part that builds the parameter widgets.
Trainer_init ==
    /\ ~ctor_done
    /\ ctor_done' = TRUE
    /\ epoch_choice' = SpinBoxValue(ctor.epochs, MinEpochs, EpochRangeMax)
    /\ loss_choice' = ComboBoxIndex(ctor.loss_index, NumLosses)
    /\ sample_choice' = SpinBoxValue(ctor.samples, SampleRangeMin, SampleRangeMax)
    /\ batch_choice' = SpinBoxValue(ctor.batch, BatchRangeMin, BatchRangeMax)
    /\ val_interval_choice' = SpinBoxValue(ctor.val_interval, MinInterval, IntervalRangeMax)
    /\ t_val_interval' = ctor.val_interval
    /\ UNCHANGED <<ctor, images_filepaths, labels_filepaths, t_data, t_worker,
                   n_created, workers, t_model, epoch_loss_values,
                   metric_values, lists_deleted, btn_start_text,
                   btn_close_visible, main_pc, click_created, events, canvas,
                   n_canvas, plotted, t_warned>>
    /\ UNCHANGED <<cropVars, reviewVars>>

\* ================================================================ Reviewer

ViewerIds == 1..(MaxLaunches + 1)
Slots == 1..MaxDocked

\* Paths the file pickers of the Reviewer can leave: unset, or chosen.
ReviewPaths == {"", "data"}
TestReviewImages == "test/sample"
TestReviewLabels == "test/sample_labels"

\* A slot that holds no Reviewer widget.
NoReviewer ==
    [docked |-> FALSE, viewer |-> 0, image_path |-> "", label_path |-> "",
     as_folder |-> FALSE, warn_label |-> FALSE]

NoLaunch == [n |-> 0, before |-> FALSE, fresh |-> FALSE, closed |-> FALSE,
             removed |-> FALSE]

\* The state at start-up: one viewer, no Reviewer widget, nothing launched.
ReviewConstructed ==
    /\ global_launched_before = FALSE
    /\ viewers = [v \in ViewerIds |-> [open |-> (v = 1), session |-> FALSE]]
    /\ n_viewers = 1
    /\ reviewers = [k \in Slots |-> NoReviewer]
    /\ launch_count = 0
    /\ last_launch = NoLaunch
    /\ label_files = FALSE
    /\ images_loaded = FALSE

\* Reviewer.__init__ and build: a Reviewer widget is opened in an open viewer;
\* the warning label is added when the global flag is set.
Reviewer_build ==
    /\ \E k \in Slots, v \in ViewerIds :
         /\ ~reviewers[k].docked
         /\ \A j \in Slots : j < k => reviewers[j].docked
         /\ viewers[v].open
         /\ reviewers' = [reviewers EXCEPT ![k] =
               [NoReviewer EXCEPT !.docked = TRUE, !.viewer = v,
                                  !.warn_label = global_launched_before]]
    /\ UNCHANGED <<global_launched_before, viewers, n_viewers, launch_count,
                   last_launch, label_files, images_loaded, test_mode>>
    /\ UNCHANGED otherThanReview

\* The file pickers and the folder checkbox of a docked Reviewer.
Reviewer_set_paths ==
    /\ \E k \in Slots :
         /\ reviewers[k].docked
         /\ \/ \E p \in ReviewPaths :
                 /\ p # reviewers[k].image_path
                 /\ reviewers' = [reviewers EXCEPT ![k].image_path = p]
            \/ \E p \in ReviewPaths :
                 /\ p # reviewers[k].label_path
                 /\ reviewers' = [reviewers EXCEPT ![k].label_path = p]
            \/ reviewers' = [reviewers EXCEPT ![k].as_folder = ~reviewers[k].as_folder]
    /\ UNCHANGED <<global_launched_before, viewers, n_viewers, launch_count,
                   last_launch, label_files, images_loaded, test_mode>>
    /\ UNCHANGED otherThanReview

\* Reviewer.remove_from_viewer: clears the global flag and undocks the widget.
remove_from_viewer(k) ==
    /\ global_launched_before' = FALSE
    /\ reviewers' = [reviewers EXCEPT ![k] = NoReviewer]

\* The close button of a docked Reviewer.
Reviewer_close ==
    /\ \E k \in Slots :
         /\ reviewers[k].docked
         /\ remove_from_viewer(k)
    /\ UNCHANGED <<viewers, n_viewers, launch_count,
                   last_launch, label_files, images_loaded, test_mode>>
    /\ UNCHANGED otherThanReview

\* Paths of run_review after its test-mode block.
ReviewImagePath(k) == IF test_mode THEN TestReviewImages ELSE reviewers[k].image_path
ReviewLabelPath(k) == IF test_mode THEN TestReviewLabels ELSE reviewers[k].label_path

\* run_review(k) up to a raise of utils.load_images: nothing else happens.
\* The loader is given whatever self.image_path holds; a chosen path loads, and
\* what it does with the empty path is left open (it raises here, it returns
\* images in the two definitions below).
run_review_load_raises(k) ==
    /\ reviewers[k].docked
    /\ ReviewImagePath(k) = ""
    /\ UNCHANGED <<reviewers, global_launched_before, viewers, n_viewers,
                   launch_count, last_launch, label_files, images_loaded,
                   test_mode>>
    /\ UNCHANGED otherThanReview

\* The labels of run_review: with the label path empty they are written as
\* empty images (folder mode), else loaded. Not in folder mode, `labels` is
\* unbound and run_review raises after making the directory.
LabelsUnbound(k) == ReviewLabelPath(k) = "" /\ ~reviewers[k].as_folder

\* run_review(k) raising on the unbound `labels`: the images are loaded, the
\* label directory is made, nothing is launched.
run_review_labels_raises(k) ==
    /\ reviewers[k].docked
    /\ LabelsUnbound(k)
    /\ reviewers' = [reviewers EXCEPT ![k].image_path = ReviewImagePath(k),
                                      ![k].label_path = "labels_dir"]
    /\ images_loaded' = TRUE
    /\ UNCHANGED <<global_launched_before, viewers, n_viewers, launch_count,
                   last_launch, label_files, test_mode>>
    /\ UNCHANGED otherThanReview

\* The test of `if global_launched_before:` in run_review.
LaunchedBefore == global_launched_before

\* run_review(k) running to its end: the review is launched.
run_review_launches(k) ==
    LET cur == reviewers[k].viewer
        new == n_viewers + 1
        written == ReviewLabelPath(k) = ""
    IN
    /\ launch_count < MaxLaunches
    /\ reviewers[k].docked
    /\ ~LabelsUnbound(k)
    /\ images_loaded' = TRUE
    /\ label_files' = (label_files \/ written)
    /\ launch_count' = launch_count + 1
    /\ IF LaunchedBefore
       THEN \* a fresh viewer gets the review; the current window is closed
            /\ n_viewers' = new
            /\ viewers' = [viewers EXCEPT ![new] = [open |-> TRUE, session |-> TRUE],
                                          ![cur] = [open |-> FALSE, session |-> FALSE]]
            /\ reviewers' = [j \in Slots |->
                   IF reviewers[j].viewer = cur THEN NoReviewer ELSE reviewers[j]]
            /\ UNCHANGED global_launched_before
            /\ last_launch' = [n |-> launch_count + 1,
                               before |-> launch_count >= 1,
                               fresh |-> TRUE, closed |-> TRUE,
                               removed |-> TRUE]
       ELSE \* the current viewer gets the review; the widget is removed
            /\ viewers' = [viewers EXCEPT ![cur].session = TRUE]
            /\ reviewers' = [reviewers EXCEPT ![k] = NoReviewer]
            /\ global_launched_before' = TRUE
            /\ UNCHANGED n_viewers
            /\ last_launch' = [n |-> launch_count + 1,
                               before |-> launch_count >= 1,
                               fresh |-> FALSE, closed |-> FALSE,
                               removed |-> TRUE]
    /\ UNCHANGED test_mode
    /\ UNCHANGED otherThanReview

\* Reviewer.run_review, from the Start button of a docked Reviewer.
run_review(k) ==
    \/ run_review_load_raises(k)
    \/ run_review_labels_raises(k)
    \/ run_review_launches(k)

Reviewer_load_raises == \E k \in Slots : run_review_load_raises(k)
Reviewer_labels_raises == \E k \in Slots : run_review_labels_raises(k)
Reviewer_launches == \E k \in Slots : run_review_launches(k)

\* =========================================================== specifications

\* The Cropping widget as SpecTrain leaves it: constructed and untouched.
CropParked ==
    /\ test_mode = FALSE
    /\ volume_on_disk = CubeVolume
    /\ CropConstructed("", "")

\* A freshly constructed Trainer; the constructor's glob found files or none.
TrainInit ==
    /\ CropParked
    /\ images_filepaths \in {<<>>, <<"a.tif">>}
    /\ labels_filepaths \in {<<>>, <<"a.tif">>}
    /\ epoch_choice \in MinEpochs..MaxEpochs
    /\ val_interval_choice \in MinInterval..MaxInterval
    /\ TrainerConstructed
    /\ CtorParked
    /\ ReviewConstructed

\* The Trainer as SpecCrop leaves it: constructed and untouched.
TrainParked ==
    /\ images_filepaths = <<>>
    /\ labels_filepaths = <<>>
    /\ epoch_choice = MinEpochs
    /\ val_interval_choice = MinInterval
    /\ TrainerConstructed
    /\ CtorParked

\* A freshly constructed Cropping widget; the volume on disk is a cube.
CropInit ==
    /\ test_mode \in BOOLEAN
    /\ volume_on_disk = CubeVolume
    /\ CropConstructed("", "")
    /\ TrainParked
    /\ ReviewConstructed

\* A Cropping widget whose paths have been chosen, over every volume shape.
CropGeomInit ==
    /\ test_mode = FALSE
    /\ volume_on_disk \in Shapes
    /\ CropConstructed("vol.tif", "vol.tif")
    /\ TrainParked
    /\ ReviewConstructed

\* The form: file pickers, checkbox, Start button, and the sliders Start adds.
\* The spinboxes keep their default here; SpecCropGeom explores them.
CropNext ==
    \/ show_dialog_image
    \/ show_dialog_label
    \/ toggle_label_path
    \/ Cropping_start
    \/ slider_changed

SpecCrop == CropInit /\ [][CropNext]_vars

\* The geometry of the crop: the paths stay as chosen.
CropGeomNext ==
    \/ toggle_label_path
    \/ set_box_widget
    \/ Cropping_start
    \/ slider_changed

SpecCropGeom == CropGeomInit /\ [][CropGeomNext]_vars

TrainNext ==
    \/ load_image_dataset
    \/ load_label_dataset
    \/ set_epoch_choice
    \/ set_val_interval_choice
    \/ start_not_ready
    \/ start_while_running
    \/ start_restart_raises
    \/ start_create_worker
    \/ start_second_test
    \/ worker_run_begins
    \/ worker_loop
    \/ train_epoch
    \/ on_finished
    \/ update_loss_plot

SpecTrain == TrainInit /\ [][TrainNext]_vars

\* A session with no Reviewer widget opened yet, in test mode or not.
ReviewInit ==
    /\ test_mode \in BOOLEAN
    /\ volume_on_disk = CubeVolume
    /\ CropConstructed("", "")
    /\ TrainParked
    /\ ReviewConstructed

ReviewNext ==
    \/ Reviewer_build
    \/ Reviewer_set_paths
    \/ Reviewer_close
    \/ Reviewer_load_raises
    \/ Reviewer_labels_raises
    \/ Reviewer_launches

SpecReview == ReviewInit /\ [][ReviewNext]_vars

\* A Trainer about to be constructed, over the arguments of CtorArgs; the
\* widgets do not exist yet.
CtorInit ==
    /\ CropParked
    /\ ReviewConstructed
    /\ ctor \in CtorArgs
    /\ ctor_done = FALSE
    /\ epoch_choice = 0
    /\ val_interval_choice = 0
    /\ sample_choice = 0
    /\ batch_choice = 0
    /\ loss_choice = -1
    /\ images_filepaths = <<>>
    /\ labels_filepaths = <<>>
    /\ t_val_interval = 0
    /\ t_data = "None"
    /\ t_worker = 0
    /\ n_created = 0
    /\ workers = [w \in WorkerIds |-> NoWorker]
    /\ t_model = "None"
    /\ epoch_loss_values = <<>>
    /\ metric_values = <<>>
    /\ lists_deleted = FALSE
    /\ btn_start_text = "Start training"
    /\ btn_close_visible = TRUE
    /\ main_pc = "idle"
    /\ click_created = FALSE
    /\ events = <<>>
    /\ canvas = FALSE
    /\ n_canvas = 0
    /\ plotted = <<>>
    /\ t_warned = FALSE

CtorNext == Trainer_init

SpecCtor == CtorInit /\ [][CtorNext]_vars

\* ------------------------------------------------------- claims on Cropping

\* C1: Cropping.start, when the image path check_ready reads is empty, or the
\* 'crop labels' box is checked and the label path is empty, issues the warning
\* and returns: self.image, self.label, the viewer's layers and
\* self.docked_widgets are unchanged by that call.
C1_StartAbortsOnUnsetPath ==
    [][ (Cropping_start
          /\ (c_image_path' = "" \/ (crop_labels' /\ c_label_path' = "")))
        => (c_warned' /\ UNCHANGED <<c_image, c_label, layers, docked_widgets>>) ]_vars

\* C1 witness: start was called with the image path chosen, the box checked and
\* the label path empty; it warned and loaded nothing.
C1_Witness ==
    /\ c_warned
    /\ crop_labels
    /\ c_image_path = "vol.tif"
    /\ c_label_path = ""
    /\ c_image = None
    /\ layers = <<>>
    /\ docked_widgets = <<>>

\* Each crop size does not exceed the volume's size on its axis.
CropFits ==
    /\ crop_size[3] <= c_image[1]
    /\ crop_size[2] <= c_image[2]
    /\ crop_size[1] <= c_image[3]

\* C10: for every position of the z, y, x sliders within [0, max], the data of
\* the 'cropped' layer lies inside the loaded volume and has exactly the shape
\* (crop_size_z, crop_size_y, crop_size_x), provided each crop size does not
\* exceed the volume's size on its axis.
C10_CroppedHasChosenShape ==
    (cropped # NoLayer /\ CropFits) =>
        /\ cropped.data.shape = <<crop_size[3], crop_size[2], crop_size[1]>>
        /\ \A a \in 1..3 :
              cropped.data.origin[a] + cropped.data.shape[a] <= c_image[a]

\* -------------------------------------------------------- claims on Trainer

\* C2: Trainer.start goes past check_ready (creates a worker, or goes on to
\* the worker it has) only when the image and the label path lists are both
\* non-empty (!= []); otherwise it warns and returns.
C2_ReadyOnlyWithNonEmptyLists ==
    [][ (start_create_worker \/ start_while_running)
        => (images_filepaths # <<>> /\ labels_filepaths # <<>>) ]_vars

\* The training runs that have been started and have not ended.
RunsExecuting == {w \in WorkerIds : workers[w].st \in {"queued", "running"}}

\* C4: whatever the Start clicks and worker events, a Trainer never has more
\* than one training run executing at the same time.
C4_OneRunAtATime == Cardinality(RunsExecuting) <= 1

\* C4 witness: a second worker is running, after Start was clicked again once
\* the first run had finished.
C4_Witness ==
    /\ n_created = 2
    /\ t_worker = 2
    /\ workers[2].st = "running"
    /\ workers[2].gen = "epoch"

\* C5: the click that creates the worker (paths ready, self.worker None) never
\* requests that worker to stop, whenever the worker thread begins running.
C5_CreatingClickNeverQuits ==
    [][ (start_second_test /\ click_created) => ~workers'[t_worker].abort ]_vars

\* C6: after a stop request the worker begins no epoch beyond the one that
\* was in progress when the stop was requested.
C6_NoEpochBegunAfterStop ==
    \A w \in WorkerIds :
       (workers[w].abort /\ workers[w].gen = "epoch")
          => workers[w].epoch <= workers[w].stop_at

\* C7: when a worker's finished signal is handled, whether the run completed
\* or was stopped, the Trainer is idle again: self.worker is None, self.model
\* is None, the start button reads "Start" and the close button is visible.
C7_IdleAfterFinished ==
    [][ on_finished
        => /\ t_worker' = 0
           /\ t_model' = "None"
           /\ btn_start_text' = "Start"
           /\ btn_close_visible' ]_vars

\* C7 witness: a worker has finished and its finished callbacks have run; the
\* Trainer is idle with its cache cleaned.
C7_Witness ==
    /\ n_created >= 1
    /\ t_worker = 0
    /\ lists_deleted
    /\ btn_start_text = "Start"
    /\ btn_close_visible
    /\ events = <<>>

Max(S) == CHOOSE x \in S : \A y \in S : y <= x

\* Index of the first occurrence of the largest element of a non-empty list.
ArgMaxFirst(seq) ==
    LET top == Max({seq[i] : i \in 1..Len(seq)})
    IN  CHOOSE i \in 1..Len(seq) :
           /\ seq[i] = top
           /\ \A j \in 1..(i - 1) : seq[j] # top

\* C8: once a run has ended (completed or stopped) with at least one metric
\* recorded, its weights file holds the model state of the validation step
\* with the highest recorded metric, the earliest on ties.
C8_BestWeightsSaved ==
    \A w \in WorkerIds :
       (workers[w].st = "finished" /\ workers[w].gen # "error"
          /\ ~lists_deleted /\ Len(metric_values) >= 1)
          => workers[w].weights = ArgMaxFirst(metric_values) * workers[w].val_interval


\* ------------------------------------------------------- claims on Reviewer

\* C3: run_review, called while the image path it reads is empty, aborts: no
\* images are loaded, no label files are written and no review is launched.
C3_RunReviewAbortsOnEmptyImagePath ==
    [][ \A k \in Slots :
          (run_review(k) /\ ReviewImagePath(k) = "")
            => UNCHANGED <<images_loaded, label_files, launch_count>> ]_vars

\* C9: a run_review that launches the review when a review has been launched
\* before does so in a fresh viewer window and closes the current one; the
\* first launch uses the current viewer and removes the Reviewer widget.
C9_FreshWindowAfterFirstLaunch ==
    last_launch.n > 0 =>
        IF last_launch.before
        THEN last_launch.fresh /\ last_launch.closed
        ELSE ~last_launch.fresh /\ last_launch.removed

\* ------------------------------------------- claims on Trainer.__init__

\* C11: when construction ends, the epoch, sample, batch and validation
\* interval spinboxes show the values given to the constructor and the loss
\* dropdown has the loss at loss_index selected.
C11_DefaultsBecomeSelections ==
    ctor_done =>
        /\ epoch_choice = ctor.epochs
        /\ sample_choice = ctor.samples
        /\ batch_choice = ctor.batch
        /\ val_interval_choice = ctor.val_interval
        /\ loss_choice = ctor.loss_index

\* ---------------------------------------------- claims on the training run

\* C12: a training run that is not stopped trains for the number of epochs it
\* read from the spinbox and then finishes, with one loss recorded per epoch
\* and one metric per validation interval; at every yield the epoch just
\* trained is a multiple of the interval and
\* len(metric_values) * val_interval = len(epoch_loss_values).
C12_UnstoppedRunTrainsAllEpochs ==
    \A w \in WorkerIds :
        LET r == workers[w] IN
        /\ (r.st = "finished" /\ ~r.abort) =>
              /\ r.gen = "done"
              /\ Len(epoch_loss_values) = r.max_epochs
              /\ Len(metric_values) = r.max_epochs \div r.val_interval
        /\ (r.st = "running" /\ ~r.abort /\ r.gen = "yielded") =>
              /\ (r.epoch + 1) % r.val_interval = 0
              /\ Len(epoch_loss_values) = r.epoch + 1
              /\ Len(metric_values) * r.val_interval = Len(epoch_loss_values)

\* C13: update_loss_plot, with epoch = len(epoch_loss_values), plots nothing
\* when epoch < 2 * val_interval, creates and docks the canvas and plots when
\* epoch = 2 * val_interval, and redraws the existing plots without a new
\* canvas on every later call; the canvas is created once only.
C13_CanvasCreatedOnceThenRedrawn ==
    [][ update_loss_plot =>
          LET epoch == Len(epoch_loss_values)
              drawn == <<Len(epoch_loss_values), Len(metric_values)>>
          IN /\ epoch < 2 * t_val_interval =>
                   UNCHANGED <<canvas, n_canvas, plotted>>
             /\ epoch = 2 * t_val_interval =>
                   canvas' /\ n_canvas' = n_canvas + 1 /\ plotted' = drawn
             /\ epoch > 2 * t_val_interval =>
                   canvas' /\ n_canvas' = n_canvas /\ plotted' = drawn
             /\ n_canvas' <= 1 ]_vars

\* C14: at every yield handled when the number of completed epochs is at
\* least the validation interval, the loss and metric plots are drawn.
C14_PlottedFromFirstValidation ==
    [][ (update_loss_plot /\ Len(epoch_loss_values) >= t_val_interval)
          => plotted' = <<Len(epoch_loss_values), Len(metric_values)>> ]_vars

\* ------------------------------------------- claims on the Reviewer's flag

\* C15: global_launched_before, which decides whether a newly built Reviewer
\* shows the warning, is True in every state in which a review session
\* launched by run_review is open, and False while none has been launched.
C15_FlagTracksOpenSession ==
    /\ (\E v \in ViewerIds : viewers[v].open /\ viewers[v].session)
          => global_launched_before
    /\ launch_count = 0 => ~global_launched_before

=============================================================================
